---- MODULE Spec2Model ----
(***************************************************************************)
(* Model of bin/luciphor_prep.py: the modification catalog (class Mods),   *)
(* the peptide notation translator and alternative-localization collector  *)
(* (class PSM), and the run of main().                                     *)
(*                                                                         *)
(* Masses are decimal numbers with at most six decimals; the model holds   *)
(* them as integers in units of 1e-6 Da.  round(x, n) is Python's          *)
(* round-half-even on that decimal value.                                  *)
(*                                                                         *)
(* A peptide string is held as a sequence of symbols: a residue letter, a  *)
(* signed mass-delta token of the first tool's notation, or a bracketed    *)
(* integer of the second tool's notation.                                  *)
(***************************************************************************)
EXTENDS Integers, Sequences, FiniteSets, TLC

VARIABLES
    pc,          \* position of the run / of the object's life
    modfile,     \* lines of the catalog file (args.modfile)
    labileptms,  \* args.labileptms
    othermods,   \* args.mods
    cat,         \* the Mods object
    msgf_mod_map,\* result of Mods.msgfmass_mod_dict
    luci_mod_map,\* result of Mods.lucimass_mod_dict
    modlines,    \* lines yielded by Mods.get_msgf_modlines
    env,         \* MS2TOLTYPE of the environment
    line,        \* the Peptide field of the row being processed
    psm,         \* the PSM object
    wfp,         \* the second-tool input file: the lines written so far
    nread,       \* rows of the PSM table read so far
    config,      \* what main renders into luciphor_config.txt
    out,         \* result of the last call on a PSM object
    lpsm,        \* the PSM object the second tool's output is parsed into
    luciline,    \* the row of the second tool's output given to it
    calls        \* the parse_luciphor_scores calls made on lpsm, in order

inputV == <<modfile, labileptms, othermods, env>>
catV == <<cat, msgf_mod_map, luci_mod_map, modlines>>
mainV == <<config, wfp, nread>>
psmV == <<line, psm, out>>
luciV == <<lpsm, luciline, calls>>
vars == <<pc, inputV, catV, mainV, psmV, luciV>>

-----------------------------------------------------------------------------
(* Bounds of the model *)

MaxModLines == 2    \* lines of the catalog file
MaxLabile == 1      \* --labileptms arguments
MaxMods == 2        \* --mods arguments
MaxPepLen == 3      \* symbols of a peptide string
MaxRows == 2        \* rows of the PSM table
MaxScoreCalls == 2  \* parse_luciphor_scores calls on one record

-----------------------------------------------------------------------------
(* Numbers *)

\* x rounded to the nearest multiple of q, ties to the even multiple
RoundTo(x, q) ==
    LET r == x % q
        lo == x - r
    IN  IF 2 * r < q THEN lo
        ELSE IF 2 * r > q THEN lo + q
        ELSE IF (lo \div q) % 2 = 0 THEN lo ELSE lo + q

Round5(x) == RoundTo(x, 10)

Round3(x) == RoundTo(x, 1000)

RoundInt(x) == RoundTo(x, 1000000) \div 1000000

-----------------------------------------------------------------------------
(* Tables *)

NON_BLOCKING_MODS(name) ==
    IF name = "GG" THEN {"TMTpro", "TMT6plex", "iTRAQ8plex", "iTRAQ4plex"}
    ELSE {}

aa_weights_monoiso ==
    [A |-> 71037110, R |-> 156101110, N |-> 114042930, D |-> 115026940,
     C |-> 103009190, E |-> 129042590, Q |-> 128058580, G |-> 57021460,
     H |-> 137058910, I |-> 113084060, L |-> 113084060, K |-> 128094960,
     M |-> 131040490, F |-> 147068410, P |-> 97052760, S |-> 87032030,
     T |-> 101047680, W |-> 186079310, Y |-> 163063330, V |-> 99068410,
     U |-> 150953636, O |-> 237147727]

\* str.lower() on the names in play
lower(s) ==
    CASE s = "Phospho" -> "phospho"
      [] s = "TMT6plex" -> "tmt6plex"
      [] s = "TMT10plex" -> "tmt10plex"
      [] s = "GG" -> "gg"
      [] s = "Acetyl" -> "acetyl"
      [] s = "MyPhos" -> "myphos"
      [] s = "79.966,Y,opt,any,MyPhos" -> "79.966,y,opt,any,myphos"
      [] OTHER -> s

-----------------------------------------------------------------------------
(* Mods: the catalog *)

NoAdj == <<>>   \* 'adjusted_mass': False

\* bool(x) of an adjusted_mass value
Truthy(a) == a # NoAdj /\ a[1] # 0

ModDict(name, mass, res, varfix, pos, lowername) ==
    [name |-> name, mass |-> mass, adjusted_mass |-> NoAdj, residue |-> res,
     var |-> (varfix = "opt"), pos |-> pos, name_lower |-> lowername]

\* for res in residues: self.mods.append({...})
ExpandResidues(l, lowername) ==
    [k \in 1..Len(l.residues) |->
        ModDict(l.name, l.mass, l.residues[k], l.varfix, l.pos, lowername)]

RECURSIVE FileMods(_, _)
FileMods(lines, mods_to_find) ==
    IF lines = <<>> THEN <<>>
    ELSE LET l == Head(lines)
             rest == FileMods(Tail(lines), mods_to_find)
         IN  IF lower(l.name) = "tmt6plex" /\ "tmt10plex" \in mods_to_find
             THEN ExpandResidues(l, "tmt10plex") \o rest
             ELSE IF lower(l.name) \notin mods_to_find THEN rest
             ELSE ExpandResidues(l, lower(l.name)) \o rest

RECURSIVE CustomMods(_)
CustomMods(mods_passed) ==
    IF mods_passed = <<>> THEN <<>>
    ELSE LET p == Head(mods_passed)
         IN  (IF Len(p.moddef) = 5 THEN ExpandResidues(p, lower(p.name)) ELSE <<>>)
             \o CustomMods(Tail(mods_passed))

\* indices into ms of the definitions with var = v, in order
RECURSIVE Partition(_, _, _)
Partition(ms, v, i) ==
    IF i > Len(ms) THEN <<>>
    ELSE (IF ms[i].var = v THEN <<i>> ELSE <<>>) \o Partition(ms, v, i + 1)

\* fixedpos.get(res, []): the fixed definitions on res, in order
RECURSIVE FixedPos(_, _, _)
FixedPos(ms, res, i) ==
    IF i > Len(ms) THEN <<>>
    ELSE (IF ~ms[i].var /\ ms[i].residue = res THEN <<i>> ELSE <<>>)
         \o FixedPos(ms, res, i + 1)

RECURSIVE Adjustment(_, _, _)
Adjustment(ms, fixed, nonblocked_fixed) ==
    IF fixed = <<>> THEN 0
    ELSE Adjustment(ms, SubSeq(fixed, 1, Len(fixed) - 1), nonblocked_fixed)
         + (IF ms[fixed[Len(fixed)]].name \notin nonblocked_fixed
            THEN ms[fixed[Len(fixed)]].mass ELSE 0)

AdjustedMassNoExceptions(ms, i) ==
    Round5(-(Adjustment(ms, FixedPos(ms, ms[i].residue, 1), {}) - ms[i].mass))
AdjustedMass(ms, i) ==
    Round5(-(Adjustment(ms, FixedPos(ms, ms[i].residue, 1),
                        NON_BLOCKING_MODS(ms[i].name)) - ms[i].mass))

parse_msgf_modfile(lines, mods_passed) ==
    LET mods_to_find == {lower(mods_passed[k].arg) : k \in 1..Len(mods_passed)}
        ms == FileMods(lines, mods_to_find) \o CustomMods(mods_passed)
        adj == [i \in 1..Len(ms) |->
                  IF ms[i].var
                  THEN [ms[i] EXCEPT !.adjusted_mass = <<AdjustedMass(ms, i)>>]
                  ELSE ms[i]]
    IN  [mods |-> adj,
         fixedmods |-> Partition(ms, FALSE, 1),
         varmods |-> Partition(ms, TRUE, 1),
         has_varmods_on_fixmod_residues |->
            \E i \in 1..Len(ms) : ms[i].var /\ FixedPos(ms, ms[i].residue, 1) # <<>>]

get_mass_or_adj(mod) ==
    IF Truthy(mod.adjusted_mass) THEN mod.adjusted_mass[1] ELSE mod.mass

\* the distinct values of f[1], f[2], ... in order of first appearance
RECURSIVE FirstSeen(_)
FirstSeen(f) ==
    IF f = <<>> THEN <<>>
    ELSE LET init == FirstSeen(SubSeq(f, 1, Len(f) - 1))
             x == f[Len(f)]
         IN  IF \E k \in 1..Len(init) : init[k] = x THEN init ELSE Append(init, x)

\* the indices i of f with f[i] = x, in order
RECURSIVE IndicesOf(_, _, _)
IndicesOf(f, x, i) ==
    IF i > Len(f) THEN <<>>
    ELSE (IF f[i] = x THEN <<i>> ELSE <<>>) \o IndicesOf(f, x, i + 1)

msgfmass_mod_dict(c) ==
    LET key == [i \in 1..Len(c.mods) |-> Round3(get_mass_or_adj(c.mods[i]))]
    IN  [ok |-> TRUE, err |-> "",
         map |-> [k \in {key[i] : i \in 1..Len(c.mods)} |->
                    [j \in 1..Len(IndicesOf(key, k, 1)) |->
                        c.mods[IndicesOf(key, k, 1)[j]]]]]

HasWeight(res) == res \in DOMAIN aa_weights_monoiso

\* f'{mod["residue"]}{mass}'
LuciKey(mod) ==
    <<mod.residue, RoundInt(aa_weights_monoiso[mod.residue] + get_mass_or_adj(mod))>>

lucimass_mod_dict(c) ==
    LET vm == [j \in 1..Len(c.varmods) |-> c.mods[c.varmods[j]]]
    IN  IF \E j \in 1..Len(vm) : ~HasWeight(vm[j].residue)
        THEN [ok |-> FALSE, err |-> "KeyError", map |-> <<>>]
        ELSE LET key == [j \in 1..Len(vm) |-> LuciKey(vm[j])]
             IN  [ok |-> TRUE, err |-> "",
                  map |-> [k \in {key[j] : j \in 1..Len(vm)} |->
                             vm[IndicesOf(key, k, 1)[Len(IndicesOf(key, k, 1))]]]]

get_msgf_modlines(c) ==
    LET mass == [i \in 1..Len(c.mods) |-> get_mass_or_adj(c.mods[i])]
        masses == FirstSeen(mass)
        mid == [i \in 1..Len(c.mods) |-> <<c.mods[i].var, c.mods[i].pos>>]
        GroupLines(g) ==
            LET idx == IndicesOf(mass, masses[g], 1)
                mids == FirstSeen([j \in 1..Len(idx) |-> mid[idx[j]]])
            IN  [n \in 1..Len(mids) |->
                    [mass |-> masses[g],
                     residues |-> LET sel == SelectSeq(idx, LAMBDA i : mid[i] = mids[n])
                                  IN  [j \in 1..Len(sel) |-> c.mods[sel[j]].residue],
                     vf |-> IF mids[n][1] THEN "opt" ELSE "fix",
                     pos |-> mids[n][2],
                     name |-> c.mods[idx[1]].name]]
    IN  IF \E i, j \in 1..Len(c.mods) : mass[i] = mass[j] /\ c.mods[i].name # c.mods[j].name
        THEN [exit |-> TRUE, lines |-> <<>>]
        ELSE [exit |-> FALSE, lines |-> [g \in 1..Len(masses) |-> GroupLines(g)]]

get_luci_input_mod_line(mod) ==
    [residue |-> IF mod.pos = "N-term" THEN "["
                 ELSE IF mod.pos = "C-term" THEN "]"
                 ELSE mod.residue,
     mass |-> get_mass_or_adj(mod)]

-----------------------------------------------------------------------------
(* Symbols of peptide strings *)

R(c) == [t |-> "res", c |-> c, v |-> 0]      \* a letter
D(v) == [t |-> "delta", c |-> "", v |-> v]   \* a token [+-]digits.digits
B(n) == [t |-> "br", c |-> "", v |-> n]      \* a bracketed integer [digits]

UpperLetters == {"A", "S", "T", "K", "Y", "M", "C", "D", "E"}
LowerLetters == {"a", "s", "t", "k", "y", "m", "c", "d", "e"}

\* str.lower() / str.upper() on one character or on a score text
lowerchar(c) ==
    CASE c = "A" -> "a" [] c = "S" -> "s" [] c = "T" -> "t" [] c = "K" -> "k"
      [] c = "Y" -> "y" [] c = "M" -> "m" [] c = "C" -> "c" [] c = "D" -> "d"
      [] c = "E" -> "e" [] OTHER -> c
upper(c) ==
    CASE c = "a" -> "A" [] c = "s" -> "S" [] c = "t" -> "T" [] c = "k" -> "K"
      [] c = "y" -> "Y" [] c = "m" -> "M" [] c = "c" -> "C" [] c = "d" -> "D"
      [] c = "e" -> "E" [] c = "1e1" -> "1E1" [] OTHER -> c

\* one past the last symbol of kind t in the run of such symbols starting at i
RECURSIVE RunEnd(_, _, _)
RunEnd(s, t, i) ==
    IF i <= Len(s) /\ s[i].t = t THEN RunEnd(s, t, i + 1) ELSE i

-----------------------------------------------------------------------------
(* PSM *)

Unset == <<>>   \* False

NewPSM ==
    [mods |-> <<>>, top_flr |-> Unset, top_score |-> Unset, lucispecid |-> Unset,
     alt_ptm_locs |-> <<>>, sequence |-> Unset, seq_in_scorepep_fmt |-> Unset]

get_modtype(mod, labileptmnames, stableptmnames) ==
    IF ~mod.var THEN "fixed"
    ELSE IF mod.name_lower \in labileptmnames THEN "labile"
    ELSE IF mod.name_lower \in stableptmnames THEN "stable"
    ELSE "variable"

\* the inner loop of parse_msgf_peptide: one ObservedModification per token
\* s[from], ..., s[to - 1], all of which msgf_mods resolves
MsgfMatchMods(s, from, to, site, msgf_mods, labileptmnames, stableptmnames) ==
    [k \in 1..(to - from) |->
        LET mod == msgf_mods[s[from + k - 1].v][1]
        IN  [site |-> site,
             type |-> get_modtype(mod, labileptmnames, stableptmnames),
             mass |-> mod.mass, name |-> mod.name, name_lower |-> mod.name_lower,
             adjusted_mass |-> mod.adjusted_mass]]

\* residue = barepep[-1]; sitenum = len(barepep) - 1
MsgfSiteOneBased(barepep) == <<barepep[Len(barepep)].c, Len(barepep)>>
MsgfSite(barepep) == <<barepep[Len(barepep)].c, Len(barepep) - 1>>

\* the finditer loop of parse_msgf_peptide from symbol i on
RECURSIVE MsgfScan(_, _, _, _, _, _, _, _)
MsgfScan(s, i, barepep, start, acc, msgf_mods, labileptmnames, stableptmnames) ==
    IF i > Len(s)
    THEN [ok |-> TRUE, err |-> "", mods |-> acc,
          sequence |-> <<barepep \o SubSeq(s, start, Len(s))>>]
    ELSE LET onres == s[i].t = "res" /\ s[i].c \in UpperLetters
                      /\ i < Len(s) /\ s[i + 1].t = "delta"
             first == IF onres THEN i + 1 ELSE i
             end == RunEnd(s, "delta", first)
             bare == IF onres THEN barepep \o SubSeq(s, start, i) ELSE barepep
             site == IF onres THEN MsgfSite(bare) ELSE <<"[", -100>>
         IN  IF ~onres /\ s[i].t # "delta"
             THEN MsgfScan(s, i + 1, barepep, start, acc, msgf_mods,
                           labileptmnames, stableptmnames)
             ELSE IF \E k \in first..(end - 1) : s[k].v \notin DOMAIN msgf_mods
             THEN [ok |-> FALSE, err |-> "KeyError",
                   mods |-> acc \o MsgfMatchMods(s, first,
                        CHOOSE k \in first..(end - 1) :
                            /\ s[k].v \notin DOMAIN msgf_mods
                            /\ \A j \in first..(k - 1) : s[j].v \in DOMAIN msgf_mods,
                        site, msgf_mods, labileptmnames, stableptmnames),
                   sequence |-> Unset]
             ELSE MsgfScan(s, end, bare, end,
                           acc \o MsgfMatchMods(s, first, end, site, msgf_mods,
                                                labileptmnames, stableptmnames),
                           msgf_mods, labileptmnames, stableptmnames)

parse_msgf_peptide(self, msgfseq, msgf_mods, labileptmnames, stableptmnames) ==
    LET r == MsgfScan(msgfseq, 1, <<>>, 1, <<>>, msgf_mods, labileptmnames,
                      stableptmnames)
    IN  [ok |-> r.ok, err |-> r.err,
         self |-> IF r.ok THEN [self EXCEPT !.mods = r.mods, !.sequence = r.sequence]
                  ELSE [self EXCEPT !.mods = r.mods]]

has_labileptms(self) == \E k \in 1..Len(self.mods) : self.mods[k].type = "labile"

has_stableptms(self) == \E k \in 1..Len(self.mods) : self.mods[k].type = "stable"

LabileMods(self) == SelectSeq(self.mods, LAMBDA m : m.type = "labile")
\* the modifications luciphor_input_sites lists: if m['type'] != 'fixed'
NonFixedMods(self) == SelectSeq(self.mods, LAMBDA m : m.type # "fixed")

luciphor_input_sites(self) ==
    LET lm == NonFixedMods(self)
    IN  IF \E k \in 1..Len(lm) : ~HasWeight(lm[k].site[1])
        THEN [ok |-> FALSE, err |-> "KeyError", sites |-> <<>>]
        ELSE [ok |-> TRUE, err |-> "",
              sites |-> [k \in 1..Len(lm) |->
                  <<lm[k].site[2], lm[k].mass + aa_weights_monoiso[lm[k].site[1]]>>]]

\* re.sub(r'([A-Z])\[[0-9]+\]', lambda x: x.group(1).lower(), modpep)
RECURSIVE ScorePepFmtKeepCase(_, _)
ScorePepFmtKeepCase(s, i) ==
    IF i > Len(s) THEN <<>>
    ELSE IF s[i].t = "res" /\ s[i].c \in UpperLetters /\ i < Len(s) /\ s[i + 1].t = "br"
    THEN <<R(s[i].c)>> \o ScorePepFmtKeepCase(s, i + 2)
    ELSE <<s[i]>> \o ScorePepFmtKeepCase(s, i + 1)
RECURSIVE ScorePepFmt(_, _)
ScorePepFmt(s, i) ==
    IF i > Len(s) THEN <<>>
    ELSE IF s[i].t = "res" /\ s[i].c \in UpperLetters /\ i < Len(s) /\ s[i + 1].t = "br"
    THEN <<R(lowerchar(s[i].c))>> \o ScorePepFmt(s, i + 2)
    ELSE <<s[i]>> \o ScorePepFmt(s, i + 1)

\* the finditer loop of parse_luciphor_peptide from symbol i on
RECURSIVE LuciScan(_, _, _, _, _, _, _, _)
LuciScan(s, i, barepep, start, acc, ptms_map, labileptms_, stabileptms) ==
    IF i > Len(s)
    THEN [ok |-> TRUE, err |-> "", mods |-> acc,
          sequence |-> <<barepep \o SubSeq(s, start, Len(s))>>]
    ELSE LET onres == s[i].t = "res" /\ s[i].c \in UpperLetters
                      /\ i < Len(s) /\ s[i + 1].t = "br"
             br == IF onres THEN i + 1 ELSE i
             bare == IF onres THEN barepep \o SubSeq(s, start, i) ELSE barepep
             key == <<IF onres THEN s[i].c ELSE "None", s[br].v>>
         IN  IF ~onres /\ s[i].t # "br"
             THEN LuciScan(s, i + 1, barepep, start, acc, ptms_map, labileptms_,
                           stabileptms)
             ELSE IF key \notin DOMAIN ptms_map
             THEN [ok |-> FALSE, err |-> "KeyError", mods |-> acc, sequence |-> Unset]
             ELSE LET ptm == ptms_map[key]
                      sitenum == IF Len(bare) # 0 THEN Len(bare) - 1 ELSE -100
                      residue == IF Len(bare) # 0 THEN bare[Len(bare)].c ELSE "["
                      rec == [site |-> <<residue, sitenum>>,
                              type |-> get_modtype(ptm, labileptms_, stabileptms),
                              mass |-> ptm.mass, name |-> ptm.name,
                              name_lower |-> ptm.name_lower]
                  IN  LuciScan(s, br + 1, bare, br + 1,
                               IF ptm.name_lower \in labileptms_
                               THEN Append(acc, rec) ELSE acc,
                               ptms_map, labileptms_, stabileptms)

parse_luciphor_peptide(self, lucirow, ptms_map, labileptms_, stabileptms) ==
    LET r == LuciScan(lucirow.predictedPep1, 1, <<>>, 1, <<>>, ptms_map,
                      labileptms_, stabileptms)
        head == [self EXCEPT !.top_flr = <<lucirow.globalFLR>>,
                             !.top_score = <<lucirow.pep1score>>,
                             !.lucispecid = <<lucirow.specId>>,
                             !.mods = r.mods]
    IN  [ok |-> r.ok, err |-> r.err,
         self |-> IF r.ok
                  THEN [head EXCEPT !.sequence = r.sequence,
                            !.seq_in_scorepep_fmt =
                                <<ScorePepFmt(lucirow.predictedPep1, 1)>>]
                  ELSE head]

\* float(text) of a score text, in units of 1e-3
float(text) ==
    CASE text = "0.4" -> 400 [] text = "0.5" -> 500 [] text = "0.9" -> 900
      [] text = "1e1" -> 10000 [] OTHER -> 0

\* [f'{x.group()}{x.start() + 1}:{score}' for x in re.finditer('[a-z]', permut)]
RECURSIVE AltLocs(_, _, _)
AltLocs(permut, score, i) ==
    IF i > Len(permut) THEN <<>>
    ELSE (IF permut[i].t = "res" /\ permut[i].c \in LowerLetters
          THEN <<[letter |-> permut[i].c, pos |-> i, score |-> score]>> ELSE <<>>)
         \o AltLocs(permut, score, i + 1)

AcceptedOrEqual(self, scorepep, minscore) ==
    /\ self.seq_in_scorepep_fmt # <<scorepep.curPermutation>>
    /\ float(scorepep.score) >= minscore
Accepted(self, scorepep, minscore) ==
    /\ self.seq_in_scorepep_fmt # <<scorepep.curPermutation>>
    /\ float(scorepep.score) > minscore

parse_luciphor_scores(self, scorepep, minscore) ==
    IF Accepted(self, scorepep, minscore)
    THEN [self EXCEPT !.alt_ptm_locs =
            Append(@, AltLocs(scorepep.curPermutation, scorepep.score, 1))]
    ELSE self

\* ','.join(x).upper() of one group
UpperGroup(g) ==
    [k \in 1..Len(g) |->
        [letter |-> upper(g[k].letter), pos |-> g[k].pos, score |-> upper(g[k].score)]]

format_alt_ptm_locs(self) ==
    LET alt_locs == [k \in 1..Len(self.alt_ptm_locs) |-> UpperGroup(self.alt_ptm_locs[k])]
    IN  IF Len(alt_locs) # 0 THEN [text |-> "", groups |-> alt_locs]
        ELSE [text |-> "NA", groups |-> <<>>]

-----------------------------------------------------------------------------
(* Inputs *)

Line(mass, residues, varfix, pos, name) ==
    [mass |-> mass, residues |-> residues, varfix |-> varfix, pos |-> pos,
     name |-> name]

L_TMT == Line(229162932, <<"K">>, "fix", "any", "TMT6plex")
L_TMTn == Line(229162932, <<"*">>, "fix", "N-term", "TMT6plex")
L_TMTv == Line(229162932, <<"K">>, "opt", "any", "TMT6plex")
L_Phos == Line(79966331, <<"S", "T">>, "opt", "any", "Phospho")
L_GG == Line(114042927, <<"K">>, "opt", "any", "GG")
L_Ac == Line(42010565, <<"K">>, "opt", "any", "Acetyl")
L_AcN == Line(42010565, <<"*">>, "opt", "N-term", "Acetyl")

LinePool == {L_TMT, L_TMTn, L_TMTv, L_Phos, L_GG, L_Ac, L_AcN}

\* a --labileptms / --mods argument that is a name
Named(n) ==
    [arg |-> n, moddef |-> <<n>>, mass |-> 0, residues |-> <<>>, varfix |-> "",
     pos |-> "", name |-> ""]
\* a --mods argument that is a user-defined modification
P_MyPhos ==
    [arg |-> "79.966,Y,opt,any,MyPhos",
     moddef |-> <<"79.966", "Y", "opt", "any", "MyPhos">>,
     mass |-> 79966000, residues |-> <<"Y">>, varfix |-> "opt", pos |-> "any",
     name |-> "MyPhos"]

LabilePool == {Named("Phospho"), Named("GG"), Named("Acetyl")}
ModsPool == {Named("TMT6plex"), Named("TMT10plex"), P_MyPhos}

SeqsUpTo(S, n) == UNION {[1..k -> S] : k \in 0..n}

\* labileptms / othermods of main: [x.lower() for x in ...]
Lowered(seq) == {lower(seq[k].arg) : k \in 1..Len(seq)}

PepResidues == {"S", "K"}
BogusToken == D(1234000)   \* "+1.234", which no catalog here resolves
BogusBracket == B(999)     \* "[999]", which no catalog here resolves

PepStrings(tokens) == SeqsUpTo({R(c) : c \in PepResidues} \cup tokens, MaxPepLen)

MsgfStrings(msgf_mods) ==
    PepStrings({D(v) : v \in DOMAIN msgf_mods} \cup {BogusToken})

LuciStrings(ptms_map) ==
    PepStrings({B(k[2]) : k \in {x \in DOMAIN ptms_map : x[2] >= 0}} \cup {BogusBracket})

-----------------------------------------------------------------------------
(* The catalog on its own: parse_msgf_modfile, then the lookups *)

NoMap == [ok |-> FALSE, err |-> "unbuilt", map |-> <<>>]
NoLines == [exit |-> FALSE, lines |-> <<>>]
NoCat == [mods |-> <<>>, fixedmods |-> <<>>, varmods |-> <<>>,
          has_varmods_on_fixmod_residues |-> FALSE]
NoConfig == [fixedmods |-> <<>>, varmods |-> <<>>, ptms |-> <<>>, dmasses |-> {},
             neutralloss |-> <<>>, decoy_nloss |-> <<>>, ms2toltype |-> 0]
NoLuciline == [globalFLR |-> "", pep1score |-> "", specId |-> "",
               predictedPep1 |-> <<>>]
NoOut == [ok |-> TRUE, err |-> "", sites |-> <<>>]

Idle ==
    /\ cat = NoCat /\ msgf_mod_map = NoMap /\ luci_mod_map = NoMap
    /\ modlines = NoLines /\ config = NoConfig /\ wfp = <<>> /\ nread = 0
    /\ line = <<>> /\ psm = NewPSM /\ out = NoOut
    /\ lpsm = NewPSM /\ luciline = NoLuciline /\ calls = <<>>

InitCatalog ==
    /\ pc = "start"
    /\ modfile \in SeqsUpTo(LinePool, MaxModLines)
    /\ labileptms \in SeqsUpTo(LabilePool, MaxLabile)
    /\ othermods \in SeqsUpTo(ModsPool, MaxMods)
    /\ env = "ppm"
    /\ Idle

CatParse ==
    /\ pc = "start"
    /\ cat' = parse_msgf_modfile(modfile, labileptms \o othermods)
    /\ pc' = "parsed"
    /\ UNCHANGED <<inputV, msgf_mod_map, luci_mod_map, modlines, mainV, psmV, luciV>>

CatMsgfDict ==
    /\ pc = "parsed"
    /\ msgf_mod_map' = msgfmass_mod_dict(cat)
    /\ pc' = "msgfdict"
    /\ UNCHANGED <<inputV, cat, luci_mod_map, modlines, mainV, psmV, luciV>>

CatLuciDict ==
    /\ pc = "msgfdict"
    /\ luci_mod_map' = lucimass_mod_dict(cat)
    /\ pc' = "lucidict"
    /\ UNCHANGED <<inputV, cat, msgf_mod_map, modlines, mainV, psmV, luciV>>

CatModlines ==
    /\ pc = "lucidict"
    /\ modlines' = get_msgf_modlines(cat)
    /\ pc' = "catdone"
    /\ UNCHANGED <<inputV, cat, msgf_mod_map, luci_mod_map, mainV, psmV, luciV>>

NextCatalog == CatParse \/ CatMsgfDict \/ CatLuciDict \/ CatModlines

SpecCatalog == InitCatalog /\ [][NextCatalog]_vars

-----------------------------------------------------------------------------
(* main() *)

Setup(f, l, o) == [modfile |-> f, labileptms |-> l, othermods |-> o]

Setups ==
    {Setup(<<L_TMT, L_Phos>>, <<Named("Phospho")>>, <<Named("TMT6plex")>>),
     Setup(<<L_TMT, L_GG, L_Ac>>, <<Named("GG")>>,
           <<Named("TMT6plex"), Named("Acetyl")>>),
     Setup(<<L_Phos>>, <<Named("Phospho")>>, <<P_MyPhos>>),
     Setup(<<L_Phos, L_Ac>>, <<Named("Phospho")>>, <<Named("Acetyl")>>),
     Setup(<<L_TMTn, L_Phos>>, <<Named("Phospho")>>, <<Named("TMT10plex")>>)}

Init ==
    /\ pc = "start"
    /\ \E c \in Setups :
        /\ modfile = c.modfile
        /\ labileptms = c.labileptms
        /\ othermods = c.othermods
    /\ env \in {"ppm", "Da", "unset"}
    /\ Idle

\* lines 315-321: the arguments, the tolerance type, the catalog
MainCatalog ==
    /\ pc = "start"
    /\ IF env \notin {"ppm", "Da"}
       THEN /\ pc' = "error"
            /\ out' = [ok |-> FALSE, err |-> "KeyError", sites |-> <<>>]
            /\ UNCHANGED cat
       ELSE /\ pc' = "parsed"
            /\ cat' = parse_msgf_modfile(modfile, labileptms \o othermods)
            /\ UNCHANGED out
    /\ UNCHANGED <<inputV, msgf_mod_map, luci_mod_map, modlines, mainV, line, psm, luciV>>

\* lines 323-360: luciphor_config.txt
MainConfig ==
    /\ pc = "parsed"
    /\ LET fm == [k \in 1..Len(cat.fixedmods) |-> cat.mods[cat.fixedmods[k]]]
           vm == [k \in 1..Len(cat.varmods) |-> cat.mods[cat.varmods[k]]]
           islabile(m) == m.name_lower \in Lowered(labileptms)
           lab == SelectSeq(vm, islabile)
           nonlab == SelectSeq(vm, LAMBDA m : ~islabile(m))
           phos == SelectSeq(vm, LAMBDA m : m.name = "Phospho")
       IN  config' =
             [fixedmods |-> [k \in 1..Len(fm) |-> get_luci_input_mod_line(fm[k])],
              varmods |-> [k \in 1..Len(nonlab) |-> get_luci_input_mod_line(nonlab[k])],
              ptms |-> [k \in 1..Len(lab) |-> get_luci_input_mod_line(lab[k])],
              dmasses |-> {get_mass_or_adj(lab[k]) : k \in 1..Len(lab)},
              neutralloss |-> [k \in 1..Len(phos) |-> "sty -H3PO4 -97.97690"],
              decoy_nloss |-> [k \in 1..Len(phos) |-> "X -H3PO4 -97.07690"],
              ms2toltype |-> IF env = "ppm" THEN 1 ELSE 0]
    /\ pc' = "configured"
    /\ UNCHANGED <<inputV, catV, wfp, nread, psmV, luciV>>

\* line 366
MainLookup ==
    /\ pc = "configured"
    /\ msgf_mod_map' = msgfmass_mod_dict(cat)
    /\ pc' = "mapped"
    /\ UNCHANGED <<inputV, cat, luci_mod_map, modlines, mainV, psmV, luciV>>

HeaderLine == [header |-> TRUE, row |-> 0, peptide |-> <<>>, modSites |-> <<>>]

\* lines 367-374: both files opened, the header written
MainHeader ==
    /\ pc = "mapped"
    /\ wfp' = <<HeaderLine>>
    /\ pc' = "rows"
    /\ UNCHANGED <<inputV, catV, config, nread, psmV, luciV>>

\* lines 375-381: one row of the PSM table
MainRow ==
    /\ pc = "rows"
    /\ nread < MaxRows
    /\ \E pep \in MsgfStrings(msgf_mod_map.map) :
        LET r == parse_msgf_peptide(NewPSM, pep, msgf_mod_map.map,
                                    Lowered(labileptms), Lowered(othermods))
            sites == luciphor_input_sites(r.self)
        IN  /\ line' = pep
            /\ psm' = r.self
            /\ nread' = nread + 1
            /\ IF ~r.ok
               THEN /\ pc' = "error"
                    /\ out' = [ok |-> FALSE, err |-> r.err, sites |-> <<>>]
                    /\ UNCHANGED wfp
               ELSE IF ~has_labileptms(r.self)
               THEN UNCHANGED <<pc, out, wfp>>
               ELSE IF ~sites.ok
               THEN /\ pc' = "error"
                    /\ out' = sites
                    /\ UNCHANGED wfp
               ELSE /\ wfp' = Append(wfp, [header |-> FALSE, row |-> nread + 1,
                                           peptide |-> r.self.sequence[1],
                                           modSites |-> sites.sites])
                    /\ UNCHANGED <<pc, out>>
    /\ UNCHANGED <<inputV, catV, config, luciV>>

\* the PSM table is exhausted
MainEnd ==
    /\ pc = "rows"
    /\ pc' = "done"
    /\ UNCHANGED <<inputV, catV, mainV, psmV, luciV>>

Next == MainCatalog \/ MainConfig \/ MainLookup \/ MainHeader \/ MainRow \/ MainEnd

Spec == Init /\ [][Next]_vars

-----------------------------------------------------------------------------
(* One PSM record on its way through both notations *)

\* the bracketed integer the second tool writes for definition `name` on
\* residue res: a key of the second-tool lookup
SynthKeys(ptms_map, res, name) ==
    {k \in DOMAIN ptms_map : k[1] = res /\ ptms_map[k].name = name /\ k[2] >= 0}

ModsAt(self, i) == {k \in 1..Len(self.mods) : self.mods[k].site[2] = i}

\* the second tool's output string for the record: its bare sequence with a
\* bracketed integer after every modified residue
RECURSIVE Synth(_, _, _)
Synth(self, ptms_map, i) ==
    IF i > Len(self.sequence[1]) THEN <<>>
    ELSE LET res == self.sequence[1][i]
             at == ModsAt(self, i - 1)
             m == self.mods[CHOOSE k \in at : TRUE]
         IN  <<res>>
             \o (IF at = {} THEN <<>>
                 ELSE <<B((CHOOSE k \in SynthKeys(ptms_map, res.c, m.name) : TRUE)[2])>>)
             \o Synth(self, ptms_map, i + 1)

CanSynth(self, ptms_map) ==
    \A k \in 1..Len(self.mods) :
        /\ self.mods[k].site[2] >= 0
        /\ SynthKeys(ptms_map, self.mods[k].site[1], self.mods[k].name) # {}

AllLabile(self) == \A k \in 1..Len(self.mods) : self.mods[k].type = "labile"

LuciRow(pep) ==
    [globalFLR |-> "0.01", pep1score |-> "100.0", specId |-> "spec1",
     predictedPep1 |-> pep]

ScoreTexts == {"0.4", "0.5", "0.9", "1e1"}
MinScores == {500}   \* 0.5
CandidatePeps ==
    {<<R("s"), R("K")>>, <<R("S"), R("k")>>, <<R("s"), R("k")>>, <<R("S"), R("K")>>}
Candidates == [curPermutation : CandidatePeps, score : ScoreTexts]

InitPSM ==
    /\ pc = "fresh"
    /\ \E c \in Setups :
        /\ modfile = c.modfile
        /\ labileptms = c.labileptms
        /\ othermods = c.othermods
        /\ cat = parse_msgf_modfile(c.modfile, c.labileptms \o c.othermods)
    /\ env = "ppm"
    /\ msgf_mod_map = msgfmass_mod_dict(cat)
    /\ luci_mod_map = lucimass_mod_dict(cat)
    /\ modlines = NoLines /\ config = NoConfig /\ wfp = <<>> /\ nread = 0
    /\ line = <<>> /\ psm = NewPSM /\ out = NoOut
    /\ lpsm = NewPSM /\ luciline = NoLuciline /\ calls = <<>>

PsmParseMsgf ==
    /\ pc = "fresh"
    /\ \E pep \in MsgfStrings(msgf_mod_map.map) :
        LET r == parse_msgf_peptide(psm, pep, msgf_mod_map.map,
                                    Lowered(labileptms), Lowered(othermods))
        IN  /\ line' = pep
            /\ psm' = r.self
            /\ out' = [ok |-> r.ok, err |-> r.err, sites |-> <<>>]
            /\ pc' = IF r.ok THEN "msgf" ELSE "msgffailed"
    /\ UNCHANGED <<inputV, catV, mainV, luciV>>

PsmInputSites ==
    /\ pc = "msgf"
    /\ out' = luciphor_input_sites(psm)
    /\ pc' = IF out'.ok THEN "sites" ELSE "sitesfailed"
    /\ UNCHANGED <<inputV, catV, mainV, line, psm, luciV>>

\* the second tool's output for the record, parsed into a new record
PsmRoundTrip ==
    /\ pc = "sites"
    /\ luci_mod_map.ok
    /\ CanSynth(psm, luci_mod_map.map)
    /\ luciline' = LuciRow(Synth(psm, luci_mod_map.map, 1))
    /\ LET r == parse_luciphor_peptide(NewPSM, luciline', luci_mod_map.map,
                                       Lowered(labileptms), Lowered(othermods))
       IN  /\ lpsm' = r.self
           /\ pc' = IF r.ok THEN "tripped" ELSE "tripfailed"
    /\ UNCHANGED <<inputV, catV, mainV, psmV, calls>>

PsmParseLuci ==
    /\ pc = "fresh"
    /\ luci_mod_map.ok
    /\ \E pep \in LuciStrings(luci_mod_map.map) :
        LET r == parse_luciphor_peptide(lpsm, LuciRow(pep), luci_mod_map.map,
                                        Lowered(labileptms), Lowered(othermods))
        IN  /\ luciline' = LuciRow(pep)
            /\ lpsm' = r.self
            /\ pc' = IF r.ok THEN "luci" ELSE "lucifailed"
    /\ UNCHANGED <<inputV, catV, mainV, psmV, calls>>

PsmScore ==
    /\ pc = "luci"
    /\ Len(calls) < MaxScoreCalls
    /\ \E scorepep \in Candidates, minscore \in MinScores :
        /\ lpsm' = parse_luciphor_scores(lpsm, scorepep, minscore)
        /\ calls' = Append(calls, [scorepep |-> scorepep, minscore |-> minscore])
    /\ UNCHANGED <<pc, inputV, catV, mainV, psmV, luciline>>

PsmFormat ==
    /\ pc = "luci"
    /\ out' = format_alt_ptm_locs(lpsm)
    /\ pc' = "formatted"
    /\ UNCHANGED <<inputV, catV, mainV, line, psm, luciV>>

NextPSM ==
    PsmParseMsgf \/ PsmInputSites \/ PsmRoundTrip \/ PsmParseLuci \/ PsmScore
        \/ PsmFormat

SpecPSM == InitPSM /\ [][NextPSM]_vars

-----------------------------------------------------------------------------
(* Claims about the catalog *)

\* the fixed definitions on the residue of definition i that block it
Blockers(ms, i) ==
    {j \in 1..Len(ms) : /\ ~ms[j].var
                        /\ ms[j].residue = ms[i].residue
                        /\ ms[j].name \notin NON_BLOCKING_MODS(ms[i].name)}

RECURSIVE MassSum(_, _)
MassSum(ms, J) ==
    IF J = {} THEN 0
    ELSE LET j == CHOOSE x \in J : TRUE IN ms[j].mass + MassSum(ms, J \ {j})

Finalized == pc # "start"

\* C1 (as amended): after parse_msgf_modfile, the adjusted mass of every
\* variable definition V on residue R is V.mass minus the masses of the fixed
\* definitions on R that are not non-blocking for V's name, rounded to 5
\* decimals; with no blocking fixed definition on R it is V.mass rounded to 5
\* decimals.
C1_AdjustedMass ==
    Finalized =>
        \A i \in 1..Len(cat.mods) :
            cat.mods[i].var =>
                /\ cat.mods[i].adjusted_mass =
                      <<Round5(cat.mods[i].mass - MassSum(cat.mods, Blockers(cat.mods, i)))>>
                /\ Blockers(cat.mods, i) = {} =>
                      cat.mods[i].adjusted_mass = <<Round5(cat.mods[i].mass)>>

\* C1 witness: a finalized catalog with a variable definition that a fixed
\* definition on its residue blocks, its adjusted mass differing from its mass
C1_Witness ==
    /\ Finalized
    /\ \E i \in 1..Len(cat.mods) :
        /\ cat.mods[i].var
        /\ Blockers(cat.mods, i) # {}
        /\ cat.mods[i].adjusted_mass # <<cat.mods[i].mass>>

\* C1 as stated: the same, but with no blocking fixed definition on R the
\* adjusted mass equals V.mass itself.
C1_Original ==
    Finalized =>
        \A i \in 1..Len(cat.mods) :
            cat.mods[i].var =>
                /\ cat.mods[i].adjusted_mass =
                      <<Round5(cat.mods[i].mass - MassSum(cat.mods, Blockers(cat.mods, i)))>>
                /\ Blockers(cat.mods, i) = {} =>
                      cat.mods[i].adjusted_mass = <<cat.mods[i].mass>>

\* C9 as stated: after finalization the effective mass of a definition is its
\* adjusted mass whenever the adjusted mass has been set, which is so for
\* exactly the variable definitions, and its raw mass otherwise.
C9_EffectiveMass ==
    Finalized =>
        \A i \in 1..Len(cat.mods) :
            /\ cat.mods[i].var <=> cat.mods[i].adjusted_mass # NoAdj
            /\ get_mass_or_adj(cat.mods[i]) =
                  IF cat.mods[i].adjusted_mass # NoAdj
                  THEN cat.mods[i].adjusted_mass[1] ELSE cat.mods[i].mass

\* two definitions of different names whose effective masses round to the
\* same 3-decimal value
Ambiguous(c) ==
    \E i, j \in 1..Len(c.mods) :
        /\ c.mods[i].name # c.mods[j].name
        /\ Round3(get_mass_or_adj(c.mods[i])) = Round3(get_mass_or_adj(c.mods[j]))

\* C2 as stated: with such a catalog, the run of main never gets past building
\* the first-tool lookup: it has ended in the catalog-ambiguity error.
C2_AmbiguityIsFatal ==
    (Ambiguous(cat) /\ pc \notin {"start", "parsed", "configured"}) =>
        (pc = "error" /\ out.err = "ambiguous")

-----------------------------------------------------------------------------
(* Claims about the run of main *)

\* what the code writes in 'siteIndex=mass' for modification m
SiteEntry(m) == <<m.site[2], m.mass + aa_weights_monoiso[m.site[1]]>>

OnResidue(m) == HasWeight(m.site[1])

\* the step of main that processes one row
RowStep == nread' = nread + 1

C4_AbortBeforeOutput == pc = "error" => wfp = <<>>

-----------------------------------------------------------------------------
(* Claims about the PSM record *)

\* the indices of the symbols of s of kind t, in order
Positions(s, t) == SelectSeq([i \in 1..Len(s) |-> i], LAMBDA i : s[i].t = t)

\* psm holds the result of a parse_msgf_peptide call that returned
MsgfParsed == pc \in {"msgf", "sites", "sitesfailed", "tripped", "tripfailed"}

\* lpsm holds the result of a parse_luciphor_peptide call that returned
LuciParsed == pc \in {"luci", "formatted", "tripped"}

\* C10: after parse_msgf_peptide on a string whose tokens all resolve, the
\* bare sequence is the string without its tokens; there is one modification
\* per token, in the order of the tokens; the site of each is ('[', -100) when
\* no residue precedes its token, and otherwise (r, i) with r the residue
\* before the token and i its 0-based index in the bare sequence.
C10_SiteIndex ==
    MsgfParsed =>
        LET seq == psm.sequence[1]
            tok == Positions(line, "delta")
            before(k) == Len(SelectSeq(SubSeq(line, 1, tok[k]), LAMBDA x : x.t = "res"))
        IN  /\ seq = SelectSeq(line, LAMBDA x : x.t = "res")
            /\ Len(psm.mods) = Len(tok)
            /\ \A k \in 1..Len(tok) :
                /\ psm.mods[k].name = msgf_mod_map.map[line[tok[k]].v][1].name
                /\ IF before(k) = 0
                   THEN psm.mods[k].site = <<"[", -100>>
                   ELSE /\ psm.mods[k].site[2] = before(k) - 1
                        /\ psm.mods[k].site[2] \in 0..(Len(seq) - 1)
                        /\ seq[psm.mods[k].site[2] + 1].c = psm.mods[k].site[1]

\* C10 witness: a parsed string with a token before any residue and a token
\* on a residue
C10_Witness ==
    /\ MsgfParsed
    /\ \E k \in 1..Len(psm.mods) : psm.mods[k].site = <<"[", -100>>
    /\ \E k \in 1..Len(psm.mods) :
          /\ psm.mods[k].site[2] >= 0
          /\ psm.sequence[1][psm.mods[k].site[2] + 1].c = psm.mods[k].site[1]

\* C7 as stated: for a peptide whose modifications are all labile, the first
\* parse, luciphor_input_sites and the parse of the second tool's string for
\* the same sites all succeed and give back the bare sequence and the sites.
C7_RoundTrip ==
    (MsgfParsed /\ AllLabile(psm) /\ psm.mods # <<>>) =>
        /\ pc \notin {"sitesfailed", "tripfailed"}
        /\ pc = "tripped" =>
            /\ lpsm.sequence = psm.sequence
            /\ {lpsm.mods[k].site : k \in 1..Len(lpsm.mods)}
                   = {psm.mods[k].site : k \in 1..Len(psm.mods)}

\* C6: when parse_luciphor_peptide returns, the score-permutation form holds
\* the letters of the input in order, a letter lowercased exactly when a
\* bracketed integer follows it in the input, and nothing else: no bracket.
C6_ScorePepFmt ==
    LuciParsed =>
        LET inp == luciline.predictedPep1
            fmt == lpsm.seq_in_scorepep_fmt[1]
            res == Positions(inp, "res")
        IN  /\ \A k \in 1..Len(fmt) : fmt[k].t = "res"
            /\ Len(fmt) = Len(res)
            /\ \A k \in 1..Len(res) :
                fmt[k].c = IF res[k] < Len(inp) /\ inp[res[k] + 1].t = "br"
                           THEN lowerchar(inp[res[k]].c) ELSE inp[res[k]].c

\* C6 witness: a parsed string with a bracketed residue and a bare one
C6_Witness ==
    /\ LuciParsed
    /\ \E k \in 1..Len(lpsm.seq_in_scorepep_fmt[1]) :
          lpsm.seq_in_scorepep_fmt[1][k].c \in LowerLetters
    /\ \E k \in 1..Len(lpsm.seq_in_scorepep_fmt[1]) :
          lpsm.seq_in_scorepep_fmt[1][k].c \in UpperLetters

\* the labile definitions of the second-tool lookup
LabileKeys ==
    {k \in DOMAIN luci_mod_map.map :
        luci_mod_map.map[k].name_lower \in Lowered(labileptms)}

\* C8 as stated: parse_luciphor_peptide records a modification for exactly
\* the bracketed integers whose definition is labile, at (last residue so far,
\* its 0-based index); a bracketed integer of a labile definition's mass that
\* comes before any residue is recorded at ('[', -100).
C8_LuciSites ==
    LET inp == luciline.predictedPep1
        br == Positions(inp, "br")
        before(k) == Len(SelectSeq(SubSeq(inp, 1, br[k]), LAMBDA x : x.t = "res"))
        key(k) == <<inp[br[k] - 1].c, inp[br[k]].v>>
        lab == SelectSeq([k \in 1..Len(br) |-> k], LAMBDA k : key(k) \in LabileKeys)
    IN  /\ (pc \in {"luci", "lucifailed"} /\ inp # <<>> /\ inp[1].t = "br"
                /\ \E k \in LabileKeys : k[2] = inp[1].v)
            => /\ lpsm.mods # <<>>
               /\ lpsm.mods[1].site = <<"[", -100>>
        /\ pc = "luci" =>
            /\ Len(lpsm.mods) = Len(lab)
            /\ \A j \in 1..Len(lab) :
                lpsm.mods[j].site = <<inp[br[lab[j]] - 1].c, before(lab[j]) - 1>>

\* the calls that the claim says are accepted
AcceptedCalls ==
    SelectSeq(calls, LAMBDA c :
        /\ <<c.scorepep.curPermutation>> # lpsm.seq_in_scorepep_fmt
        /\ float(c.scorepep.score) > c.minscore)

\* the group of one accepted call: an entry per lowercase letter, the letter
\* uppercased, its 1-based position, and the score text, uppercased if raise
GroupOf(c, raise) ==
    LET low == SelectSeq([i \in 1..Len(c.scorepep.curPermutation) |-> i],
                         LAMBDA i : c.scorepep.curPermutation[i].c \in LowerLetters)
    IN  [k \in 1..Len(low) |->
            [letter |-> upper(c.scorepep.curPermutation[low[k]].c),
             pos |-> low[k],
             score |-> IF raise THEN upper(c.scorepep.score) ELSE c.scorepep.score]]

\* C5 (as amended): a candidate is accepted iff its permutation differs from
\* the record's score-permutation form and its score is strictly greater than
\* minscore; format_alt_ptm_locs gives 'NA' when none was accepted, and
\* otherwise one group per accepted candidate in call order, each group
\* holding '{UPPER(letter)}{i}:{UPPER(score text)}' per lowercase letter at
\* 1-based position i: the whole group is uppercased, the score text too.
C5_AltLocs ==
    /\ pc \in {"luci", "formatted"} => Len(lpsm.alt_ptm_locs) = Len(AcceptedCalls)
    /\ pc = "formatted" =>
        IF AcceptedCalls = <<>> THEN out.text = "NA"
        ELSE /\ out.text # "NA"
             /\ out.groups = [k \in 1..Len(AcceptedCalls) |->
                                 GroupOf(AcceptedCalls[k], TRUE)]

\* C5 witness: formatted after an accepted and a rejected candidate
C5_Witness ==
    /\ pc = "formatted"
    /\ Len(calls) = 2
    /\ Len(AcceptedCalls) = 1
    /\ out.text # "NA"

\* C5 as stated: the same, with the score text of each entry as given.
C5_Original ==
    /\ pc \in {"luci", "formatted"} => Len(lpsm.alt_ptm_locs) = Len(AcceptedCalls)
    /\ pc = "formatted" =>
        IF AcceptedCalls = <<>> THEN out.text = "NA"
        ELSE /\ out.text # "NA"
             /\ out.groups = [k \in 1..Len(AcceptedCalls) |->
                                 GroupOf(AcceptedCalls[k], FALSE)]

====
